---------------------------- MODULE Spec2Model ----------------------------
(***************************************************************************)
(* A model of the NBA prediction pipeline of predict.py: team-name         *)
(* resolution, four-factor extraction, the matchup feature frame, the      *)
(* line probability, the single-game prediction and the day batch.         *)
(*                                                                         *)
(* Conventions.  A Python str is a sequence of one-character strings, so   *)
(* that lower() and the lexicographic order of column labels are computed  *)
(* character by character.  A Python value is a record [t, v] tagged with  *)
(* its type.  A call ends in an outcome: a returned value or a raised      *)
(* exception.  Margins, lines and standard deviations are integers         *)
(* (points); a probability is an integer number of millionths.  Datetimes  *)
(* are whole hours since midnight of day 0.                                *)
(***************************************************************************)
EXTENDS Integers, Sequences, FiniteSets, TLC

VARIABLES name_call, ff_call, df_call, lp_call, lp_prev, pg_call, day_call

vars == <<name_call, ff_call, df_call, lp_call, lp_prev, pg_call, day_call>>

----------------------------------------------------------------------------
(* Bounds of the model *)

\* Predictions and betting lines range over -MaxMargin..MaxMargin.
MaxMargin == 4

\* A stats table has at most MaxRows rows.
MaxRows == 2

\* A schedule has at most MaxGames rows.
MaxGames == 2

----------------------------------------------------------------------------
(* Python values and call outcomes *)

Str(s) == [t |-> "str", v |-> s]

List(xs) == [t |-> "list", v |-> xs]

None == [t |-> "NoneType", v |-> <<>>]

Return(x) == [kind |-> "return", value |-> x, exc |-> ""]

Raise(e) == [kind |-> "raise", value |-> None, exc |-> e]

\* The member of a one-member set.  Only({e(x) : x \in {v}}) is e with the
\* local variable x assigned the value of v, evaluated once.
Only(S) == CHOOSE r \in S : TRUE

\* The state of a function that has not been called yet.
NotCalled == [args |-> <<>>, out |-> [kind |-> "none", value |-> None, exc |-> ""]]

----------------------------------------------------------------------------
(* Characters and str operations *)

\* The printable ASCII characters, code 32 (space) to 126 (~), in code order
\* (code 96, the grave accent, is spelled out).
Ascii ==
  << " ","!","\"","#","$","%","&","'","(",")","*","+",",","-",".","/",
     "0","1","2","3","4","5","6","7","8","9",":",";","<","=",">","?",
     "@","A","B","C","D","E","F","G","H","I","J","K","L","M","N","O",
     "P","Q","R","S","T","U","V","W","X","Y","Z","[","\\","]","^","_",
     "grave","a","b","c","d","e","f","g","h","i","j","k","l","m","n","o",
     "p","q","r","s","t","u","v","w","x","y","z","{","|","}","~" >>

\* ord(c) and chr(n), tabulated once over the characters.
OrdTable == [c \in {Ascii[i] : i \in 1..Len(Ascii)} |->
               31 + CHOOSE i \in 1..Len(Ascii) : Ascii[i] = c]

Ord(c) == OrdTable[c]

Chr(n) == Ascii[n - 31]

\* str.lower() on one ASCII character: A-Z (65..90) map to a-z (97..122).
LowerTable == [c \in DOMAIN OrdTable |->
                 IF OrdTable[c] >= 65 /\ OrdTable[c] <= 90
                   THEN Chr(OrdTable[c] + 32) ELSE c]

LowerChar(c) == LowerTable[c]

\* str.lower()
Lower(s) == [i \in 1..Len(s) |-> LowerChar(s[i])]

\* s < t in Python's str order: lexicographic by code point, a proper prefix first.
RECURSIVE StrLess(_, _)
StrLess(s, t) ==
  IF t = <<>> THEN FALSE
  ELSE IF s = <<>> THEN TRUE
  ELSE IF Ord(Head(s)) # Ord(Head(t)) THEN Ord(Head(s)) < Ord(Head(t))
  ELSE StrLess(Tail(s), Tail(t))

----------------------------------------------------------------------------
(* br_references: the Team enumeration and the four factors *)

\* The values of the Team enumeration, in definition order.
Team ==
  << <<"A","T","L","A","N","T","A"," ","H","A","W","K","S">>,
     <<"B","O","S","T","O","N"," ","C","E","L","T","I","C","S">>,
     <<"B","R","O","O","K","L","Y","N"," ","N","E","T","S">>,
     <<"C","H","A","R","L","O","T","T","E"," ","H","O","R","N","E","T","S">>,
     <<"C","H","I","C","A","G","O"," ","B","U","L","L","S">>,
     <<"C","L","E","V","E","L","A","N","D"," ","C","A","V","A","L","I","E","R","S">>,
     <<"D","A","L","L","A","S"," ","M","A","V","E","R","I","C","K","S">>,
     <<"D","E","N","V","E","R"," ","N","U","G","G","E","T","S">>,
     <<"D","E","T","R","O","I","T"," ","P","I","S","T","O","N","S">>,
     <<"G","O","L","D","E","N"," ","S","T","A","T","E"," ","W","A","R","R","I","O","R","S">>,
     <<"H","O","U","S","T","O","N"," ","R","O","C","K","E","T","S">>,
     <<"I","N","D","I","A","N","A"," ","P","A","C","E","R","S">>,
     <<"L","O","S"," ","A","N","G","E","L","E","S"," ","C","L","I","P","P","E","R","S">>,
     <<"L","O","S"," ","A","N","G","E","L","E","S"," ","L","A","K","E","R","S">>,
     <<"M","E","M","P","H","I","S"," ","G","R","I","Z","Z","L","I","E","S">>,
     <<"M","I","A","M","I"," ","H","E","A","T">>,
     <<"M","I","L","W","A","U","K","E","E"," ","B","U","C","K","S">>,
     <<"M","I","N","N","E","S","O","T","A"," ","T","I","M","B","E","R","W","O","L","V","E","S">>,
     <<"N","E","W"," ","O","R","L","E","A","N","S"," ","P","E","L","I","C","A","N","S">>,
     <<"N","E","W"," ","Y","O","R","K"," ","K","N","I","C","K","S">>,
     <<"O","K","L","A","H","O","M","A"," ","C","I","T","Y"," ","T","H","U","N","D","E","R">>,
     <<"O","R","L","A","N","D","O"," ","M","A","G","I","C">>,
     <<"P","H","I","L","A","D","E","L","P","H","I","A"," ","7","6","E","R","S">>,
     <<"P","H","O","E","N","I","X"," ","S","U","N","S">>,
     <<"P","O","R","T","L","A","N","D"," ","T","R","A","I","L"," ","B","L","A","Z","E","R","S">>,
     <<"S","A","C","R","A","M","E","N","T","O"," ","K","I","N","G","S">>,
     <<"S","A","N"," ","A","N","T","O","N","I","O"," ","S","P","U","R","S">>,
     <<"T","O","R","O","N","T","O"," ","R","A","P","T","O","R","S">>,
     <<"U","T","A","H"," ","J","A","Z","Z">>,
     <<"W","A","S","H","I","N","G","T","O","N"," ","W","I","Z","A","R","D","S">>,
     <<"C","H","A","R","L","O","T","T","E"," ","B","O","B","C","A","T","S">>,
     <<"N","E","W"," ","J","E","R","S","E","Y"," ","N","E","T","S">>,
     <<"N","E","W"," ","O","R","L","E","A","N","S"," ","H","O","R","N","E","T","S">>,
     <<"N","E","W"," ","O","R","L","E","A","N","S","/","O","K","L","A","H","O","M","A"," ","C","I","T","Y"," ","H","O","R","N","E","T","S">>,
     <<"S","E","A","T","T","L","E"," ","S","U","P","E","R","S","O","N","I","C","S">>,
     <<"V","A","N","C","O","U","V","E","R"," ","G","R","I","Z","Z","L","I","E","S">> >>

\* The offensive and defensive four factors.
four_factors ==
  << <<"e","f","g","_","p","c","t">>,
     <<"t","o","v","_","p","c","t">>,
     <<"o","r","b","_","p","c","t">>,
     <<"f","t","_","r","a","t","e">>,
     <<"o","p","p","_","e","f","g","_","p","c","t">>,
     <<"o","p","p","_","t","o","v","_","p","c","t">>,
     <<"d","r","b","_","p","c","t">>,
     <<"o","p","p","_","f","t","_","r","a","t","e">> >>

----------------------------------------------------------------------------
(* get_team_name *)

\* The loop of get_team_name from the i-th member of Team on: the first member
\* whose lower-cased value equals team.lower() is returned; when the loop ends
\* the function falls off its end and returns None.  team.lower() raises
\* AttributeError when team is not a str.
\* team_name.value.lower() of every member, tabulated once.
TeamLower == [i \in 1..Len(Team) |-> Lower(Team[i])]

RECURSIVE get_team_name_from(_, _)
get_team_name_from(team, i) ==
  IF i > Len(Team) THEN Return(None)
  ELSE IF team.t # "str" THEN Raise("AttributeError")
  ELSE IF Lower(team.v) = TeamLower[i] THEN Return(Str(Team[i]))
  ELSE get_team_name_from(team, i + 1)

get_team_name(team) == get_team_name_from(team, 1)

----------------------------------------------------------------------------
(* scipy.stats.norm as line_probability uses it *)

\* 0.5 as a probability in millionths.
Half == 500000

\* The standard normal CDF at z = h/2 for h = -16..16 (entry h + 17), in
\* millionths, rounded to the nearest; beyond |z| = 8 it is 0 or 1 to that precision.
PhiTable ==
  << 0, 0, 0, 0, 0, 0,
     0, 3, 32, 233, 1350, 6210,
     22750, 66807, 158655, 308538, 500000, 691462,
     841345, 933193, 977250, 993790, 998650, 999767,
     999968, 999997, 1000000, 1000000, 1000000, 1000000,
     1000000, 1000000, 1000000 >>

Phi2(h) == IF h < -16 THEN 0 ELSE IF h > 16 THEN 2 * Half ELSE PhiTable[h + 17]

\* The residual standard deviations of the model (np.std(reg.residuals) > 0).
\* With scale 1 or 2, z = (x - loc) / scale is a whole number of halves.
Stds == {1, 2}

\* stats.norm(loc, scale).cdf(x) = Phi((x - loc) / scale)
NormCdf(x, loc, scale) == Phi2((2 * (x - loc)) \div scale)

\* stats.norm(loc, scale).sf(x) = Phi(-(x - loc) / scale) = 1 - cdf(x)
NormSf(x, loc, scale) == Phi2(-((2 * (x - loc)) \div scale))

----------------------------------------------------------------------------
(* line_probability *)

Float(x) == [t |-> "float", v |-> x]

Tuple(xs) == [t |-> "tuple", v |-> xs]

TagCdf == Str(<<"c","d","f">>)

TagSf == Str(<<"s","f">>)

\* Plausible slips of line_probability, used to show that the properties
\* below depend on its branches.
line_probability_swapped(prediction, line, std) ==
  LET line_prediction == -1 * line
  IN IF prediction > line_prediction
       THEN Return(Tuple(<<Float(NormSf(line_prediction, prediction, std)), TagCdf>>))
     ELSE IF prediction < line_prediction
       THEN Return(Tuple(<<Float(NormCdf(line_prediction, prediction, std)), TagSf>>))
     ELSE Return(Float(Half))

line_probability_fixed_tail(prediction, line, std) ==
  LET line_prediction == -1 * line
  IN IF prediction > line_prediction
       THEN Return(Tuple(<<Float(NormCdf(line_prediction, prediction, std)), TagCdf>>))
     ELSE IF prediction < line_prediction
       THEN Return(Tuple(<<Float(NormCdf(line_prediction, prediction, std)), TagSf>>))
     ELSE Return(Float(Half))

line_probability_sf_of_line(prediction, line, std) ==
  LET line_prediction == -1 * line
  IN IF prediction > line_prediction
       THEN Return(Tuple(<<Float(NormCdf(line_prediction, prediction, std)), TagCdf>>))
     ELSE IF prediction < line_prediction
       THEN Return(Tuple(<<Float(NormSf(line, prediction, std)), TagSf>>))
     ELSE Return(Float(Half))

line_probability_no_equal_branch(prediction, line, std) ==
  LET line_prediction == -1 * line
  IN IF prediction > line_prediction
       THEN Return(Tuple(<<Float(NormCdf(line_prediction, prediction, std)), TagCdf>>))
     ELSE IF prediction < line_prediction
       THEN Return(Tuple(<<Float(NormSf(line_prediction, prediction, std)), TagSf>>))
     ELSE Return(None)

\* dist = norm(loc=prediction, scale=std); line_prediction = -1 * line.  The
\* first two branches return a (probability, tag) tuple, the third a bare
\* float; a call that takes no branch falls off the end and returns None.
line_probability(prediction, line, std) ==
  LET line_prediction == -1 * line
  IN IF prediction > line_prediction
       THEN Return(Tuple(<<Float(NormCdf(line_prediction, prediction, std)), TagCdf>>))
     ELSE IF prediction < line_prediction
       THEN Return(Tuple(<<Float(NormSf(line_prediction, prediction, std)), TagSf>>))
     ELSE IF prediction = line_prediction
       THEN Return(Float(Half))
     ELSE Return(None)

----------------------------------------------------------------------------
(* pandas data frames as predict.py uses them *)

\* A frame is a sequence of column labels and a sequence of rows, each row a
\* sequence of cells aligned with the labels.
DataFrame(columns, rows) == [t |-> "DataFrame", columns |-> columns, rows |-> rows]

HasColumn(df, c) == \E i \in 1..Len(df.columns) : df.columns[i] = c

ColumnIndex(df, c) == CHOOSE i \in 1..Len(df.columns) : df.columns[i] = c

Cell(df, row, c) == row[ColumnIndex(df, c)]

\* df[cols]: the columns cols, in the order of cols.
SelectColumns(df, cols) ==
  DataFrame(cols, [r \in 1..Len(df.rows) |->
                     [j \in 1..Len(cols) |-> Cell(df, df.rows[r], cols[j])]])

\* df.rename(f, axis='columns'), renamed[c] being f(c) for each label c.
RenameColumns(df, renamed) ==
  DataFrame([j \in 1..Len(df.columns) |-> renamed[df.columns[j]]], df.rows)

\* df[c] = value: overwrites column c, or appends it as the last column.
SetColumn(df, c, value) ==
  IF HasColumn(df, c)
    THEN DataFrame(df.columns,
                   [r \in 1..Len(df.rows) |->
                      [df.rows[r] EXCEPT ![ColumnIndex(df, c)] = value]])
    ELSE DataFrame(Append(df.columns, c),
                   [r \in 1..Len(df.rows) |-> Append(df.rows[r], value)])

\* s without its i-th member.
RemoveAt(s, i) == SubSeq(s, 1, i - 1) \o SubSeq(s, i + 1, Len(s))

\* df.drop([c], axis=1)
DropColumn(df, c) ==
  LET i == ColumnIndex(df, c)
  IN DataFrame(RemoveAt(df.columns, i),
               [r \in 1..Len(df.rows) |-> RemoveAt(df.rows[r], i)])

\* The right rows joined to one left row.
RECURSIVE JoinOne(_, _, _, _, _)
JoinOne(left, lrow, right, rrows, on) ==
  IF rrows = <<>> THEN <<>>
  ELSE (IF Cell(left, lrow, on) = Cell(right, Head(rrows), on)
          THEN <<lrow \o RemoveAt(Head(rrows), ColumnIndex(right, on))>>
          ELSE <<>>)
       \o JoinOne(left, lrow, right, Tail(rrows), on)

RECURSIVE JoinAll(_, _, _, _)
JoinAll(left, lrows, right, on) ==
  IF lrows = <<>> THEN <<>>
  ELSE JoinOne(left, Head(lrows), right, right.rows, on)
       \o JoinAll(left, Tail(lrows), right, on)

\* pd.merge(left, right, on=on, sort=True): the inner join on one key column;
\* the left columns, then the right columns other than the key.  No other
\* label is shared here, and every key is the same, so sort leaves the order.
Merge(left, right, on) ==
  DataFrame(left.columns \o RemoveAt(right.columns, ColumnIndex(right, on)),
            JoinAll(left, left.rows, right, on))

\* The permutation that sorts the labels: a stable insertion sort by str order.
RECURSIVE InsertSorted(_, _, _)
InsertSorted(labels, sorted, i) ==
  IF sorted = <<>> THEN <<i>>
  ELSE IF StrLess(labels[i], labels[Head(sorted)]) THEN <<i>> \o sorted
  ELSE <<Head(sorted)>> \o InsertSorted(labels, Tail(sorted), i)

RECURSIVE SortedOrder(_, _)
SortedOrder(labels, n) ==
  IF n = 0 THEN <<>> ELSE InsertSorted(labels, SortedOrder(labels, n - 1), n)

\* df.sort_index(axis=1): the columns in ascending label order.
SortColumns(df) ==
  LET order == SortedOrder(df.columns, Len(df.columns))
  IN DataFrame([j \in 1..Len(order) |-> df.columns[order[j]]],
               [r \in 1..Len(df.rows) |->
                  [j \in 1..Len(order) |-> df.rows[r][order[j]]]])

----------------------------------------------------------------------------
(* get_team_ff and create_prediction_df *)

ColTeamName == <<"t","e","a","m","_","n","a","m","e">>

ColKey == <<"k","e","y">>

ColConst == <<"c","o","n","s","t">>

\* four_factor_regression.append_h and append_a
append_h(label) == label \o <<"_","h">>

append_a(label) == label \o <<"_","a">>

\* ff_df[ff_df.team_name.str.lower() == team.lower()][ff_list], renamed with
\* the home or away suffix.  team.lower() raises AttributeError when team is
\* not a str.  The frame has as many rows as rows match.
get_team_ff(team, ff_df, home) ==
  IF team.t # "str" THEN Raise("AttributeError")
  ELSE LET ff_list == four_factors
           Matches(row) == Lower(Cell(ff_df, row, ColTeamName)) = Lower(team.v)
           team_ff == SelectColumns(DataFrame(ff_df.columns, SelectSeq(ff_df.rows, Matches)),
                                    ff_list)
           labels == {ff_list[j] : j \in 1..Len(ff_list)}
       IN IF home THEN Return(RenameColumns(team_ff, [c \in labels |-> append_h(c)]))
          ELSE Return(RenameColumns(team_ff, [c \in labels |-> append_a(c)]))

\* A plausible slip: the join key is not dropped.
create_prediction_df_keeps_key(home_tm, away_tm, ff_df) ==
  LET home_out == get_team_ff(home_tm, ff_df, TRUE)
      away_out == get_team_ff(away_tm, ff_df, FALSE)
  IN IF home_out.kind = "raise" THEN home_out
     ELSE IF away_out.kind = "raise" THEN away_out
     ELSE LET home_ff == SetColumn(SetColumn(home_out.value, ColKey, 1), ColConst, 1)
              away_ff == SetColumn(away_out.value, ColKey, 1)
          IN Return(SortColumns(Merge(home_ff, away_ff, ColKey)))

\* home_ff gets key = 1 and const = 1.0, away_ff gets key = 1; the two are
\* merged on key, key is dropped and the columns are sorted.
create_prediction_df(home_tm, away_tm, ff_df) ==
  LET home_out == get_team_ff(home_tm, ff_df, TRUE)
      away_out == get_team_ff(away_tm, ff_df, FALSE)
  IN IF home_out.kind = "raise" THEN home_out
     ELSE IF away_out.kind = "raise" THEN away_out
     ELSE LET home_ff == SetColumn(SetColumn(home_out.value, ColKey, 1), ColConst, 1)
              away_ff == SetColumn(away_out.value, ColKey, 1)
              merged == Merge(home_ff, away_ff, ColKey)
          IN Return(SortColumns(DropColumn(merged, ColKey)))

----------------------------------------------------------------------------
(* The fitted model (four_factor_regression) and get_prediction *)

\* A fitted model: the coefficients, in the order of the sorted feature
\* names (const first, then efg_pct_a fourth and efg_pct_h fifth), and the
\* standard deviation of its residuals.  Here the predicted home margin is
\* bias + efg_pct_h - efg_pct_a.
FittedModel(bias, std) ==
  [params |-> [j \in 1..17 |-> IF j = 1 THEN bias
                               ELSE IF j = 4 THEN -1
                               ELSE IF j = 5 THEN 1
                               ELSE 0],
   residual_std |-> std]

\* What lm.main(year) may return.
Regs == {FittedModel(-3, 1), FittedModel(0, 2), FittedModel(3, 2)}

\* The sum of params[j] * row[j] over the first n columns.
RECURSIVE Dot(_, _, _)
Dot(params, row, n) ==
  IF n = 0 THEN 0 ELSE Dot(params, row, n - 1) + params[n] * row[n]

\* reg.results.predict(pred_df): one prediction per row; the frame must have
\* as many columns as the model has coefficients.
ModelPredict(reg, pred_df) ==
  IF Len(pred_df.columns) # Len(reg.params) THEN Raise("ValueError")
  ELSE Return([r \in 1..Len(pred_df.rows) |->
                 Dot(reg.params, pred_df.rows[r], Len(reg.params))])

\* reg.results.predict(pred_df).values[0]: the first prediction; IndexError
\* when the frame has no row.
get_prediction(reg, pred_df) ==
  LET predicted == ModelPredict(reg, pred_df)
  IN IF predicted.kind = "raise" THEN predicted
     ELSE IF Len(predicted.value) = 0 THEN Raise("IndexError")
     ELSE Return(predicted.value[1])

----------------------------------------------------------------------------
(* predict_game *)

Dict(rec) == [t |-> "dict", v |-> rec]

\* lm.four_factors_list(): the columns predict_game reads from misc_stats.
four_factors_list == <<ColTeamName>> \o four_factors

\* probability, function = value: a tuple of two unpacks; a float is not
\* iterable and raises TypeError.
UnpackPair(value) ==
  IF value.t = "tuple" /\ Len(value.v) = 2 THEN Return(value.v)
  ELSE IF value.t = "tuple" THEN Raise("ValueError")
  ELSE Raise("TypeError")

\* predict_game(start_time, home_tm, away_tm, line, db_conn): reg is what
\* lm.main(year) returned and misc_stats the table read through db_conn.
\* Each step's exception ends the call.  console_out only prints.
predict_game(start_time, home_tm, away_tm, line, misc_stats, reg) ==
  LET home_out == get_team_name(home_tm)
      away_out == get_team_name(away_tm)
      ff_df == SelectColumns(misc_stats, four_factors_list)
  IN IF home_out.kind = "raise" THEN home_out
     ELSE IF away_out.kind = "raise" THEN away_out
     ELSE
       LET pred_df == create_prediction_df(home_out.value, away_out.value, ff_df)
       IN IF pred_df.kind = "raise" THEN pred_df
          ELSE
            LET prediction == get_prediction(reg, pred_df.value)
            IN IF prediction.kind = "raise" THEN prediction
               ELSE
                 LET lp == line_probability(prediction.value, line, reg.residual_std)
                     pair == UnpackPair(lp.value)
                 IN IF pair.kind = "raise" THEN pair
                    ELSE Return(Dict([start_time |-> start_time,
                                      home_team |-> home_out.value,
                                      away_team |-> away_out.value,
                                      line |-> line,
                                      prediction |-> prediction.value,
                                      probability |-> pair.value[1],
                                      function |-> pair.value[2]]))

----------------------------------------------------------------------------
(* predict_games_on_day *)

\* Hours in datetime.timedelta(days=1).
HoursPerDay == 24

\* datetime.datetime(year, month, day): midnight of the day-th day.
Midnight(day) == day * HoursPerDay

ColId == <<"i","d">>

ColStartTime == <<"s","t","a","r","t","_","t","i","m","e">>

ColHomeTeam == <<"h","o","m","e","_","t","e","a","m">>

ColAwayTeam == <<"a","w","a","y","_","t","e","a","m">>

\* The columns of the schedule table.
SchedColumns == <<ColId, ColStartTime, ColHomeTeam, ColAwayTeam>>

\* The sample betting lines used until a line scraper exists.
game_lines == <<4, -4>>

\* The list literal ["home_team"] passed as home_tm when no lines are asked for.
HomeTeamList == List(<<Str(<<"h","o","m","e","_","t","e","a","m">>)>>)

\* The predict_game call the loop makes for one row of games_on_date.  With
\* lines the home team is the row's and the line game_lines[0]; without, the
\* home team passed is the list ["home_team"] and the line 0.
PredictRow(games_on_date, row, lines, misc_stats, reg) ==
  LET start_time == Cell(games_on_date, row, ColStartTime)
      home_tm == IF lines THEN Str(Cell(games_on_date, row, ColHomeTeam))
                 ELSE HomeTeamList
      away_tm == Str(Cell(games_on_date, row, ColAwayTeam))
      line == IF lines THEN game_lines[1] ELSE 0
  IN [row |-> row, args |-> <<start_time, home_tm, away_tm, line>>,
      out |-> predict_game(start_time, home_tm, away_tm, line, misc_stats, reg)]

\* The loop over games_on_date from row i on: one predict_game call per row,
\* in order, whose result is dropped; the first exception ends the loop.  The
\* value is the sequence of calls made, each with its row, arguments and outcome.
RECURSIVE PredictRows(_, _, _, _, _)
PredictRows(games_on_date, i, lines, misc_stats, reg) ==
  IF i > Len(games_on_date.rows) THEN <<>>
  ELSE Only({IF call.out.kind = "raise" THEN <<call>>
              ELSE <<call>> \o PredictRows(games_on_date, i + 1, lines, misc_stats, reg) :
              call \in {PredictRow(games_on_date, games_on_date.rows[i], lines,
                                   misc_stats, reg)}})

\* A plausible slip of the date mask: midnight of the next day let in.
GamesOnDate_closed(day, sched_df) ==
  LET date == Midnight(day)
      next_day == date + HoursPerDay
      date_mask(row) == /\ Cell(sched_df, row, ColStartTime) >= date
                        /\ Cell(sched_df, row, ColStartTime) <= next_day
  IN DataFrame(sched_df.columns, SelectSeq(sched_df.rows, date_mask))

\* The schedule rows with date <= start_time < next_day.
GamesOnDate(day, sched_df) ==
  LET date == Midnight(day)
      next_day == date + HoursPerDay
      date_mask(row) == /\ Cell(sched_df, row, ColStartTime) >= date
                        /\ Cell(sched_df, row, ColStartTime) < next_day
  IN DataFrame(sched_df.columns, SelectSeq(sched_df.rows, date_mask))

\* What the function leaves behind once the loop has made `calls`: the last
\* call's exception, or None when the loop ran to its end.
AfterLoop(games_on_date, calls) ==
  [out |-> IF calls # <<>> /\ calls[Len(calls)].out.kind = "raise"
             THEN calls[Len(calls)].out ELSE Return(None),
   games_on_date |-> games_on_date,
   calls |-> calls]

\* A plausible slip: the emptiness test is made after the loop, and the loop
\* runs over the whole schedule.
predict_games_on_day_late_check(day, sched_df, lines, misc_stats, reg) ==
  Only({IF Len(games_on_date.rows) < 1
          THEN [out |-> Raise("Exception: No games"), games_on_date |-> games_on_date,
                calls |-> calls]
          ELSE AfterLoop(games_on_date, calls) :
          games_on_date \in {GamesOnDate(day, sched_df)},
          calls \in {PredictRows(sched_df, 1, lines, misc_stats, reg)}})

\* predict_games_on_day(day, month, year, sched_df, lines, db_conn): the
\* outcome, the filtered schedule and the predict_game calls made.  An empty
\* day raises Exception("No games on ...") before the loop; otherwise the
\* first failing game's exception leaves the function, and when every game
\* is predicted the function ends without a return statement (results, an
\* empty dict, is never filled nor returned).
predict_games_on_day(day, sched_df, lines, misc_stats, reg) ==
  Only({IF Len(games_on_date.rows) < 1
          THEN [out |-> Raise("Exception: No games"), games_on_date |-> games_on_date,
                calls |-> <<>>]
          ELSE Only({AfterLoop(games_on_date, calls) :
                       calls \in {PredictRows(games_on_date, 1, lines, misc_stats, reg)}}) :
          games_on_date \in {GamesOnDate(day, sched_df)}})

----------------------------------------------------------------------------
(* Arguments of the calls *)

\* "Los Angeles Lakers", "boston celtics", "Boston", "Seattle Sonics"
LosAngelesLakersMixed ==
  <<"L","o","s"," ","A","n","g","e","l","e","s"," ","L","a","k","e","r","s">>

BostonCelticsLower == <<"b","o","s","t","o","n"," ","c","e","l","t","i","c","s">>

BostonOnly == <<"B","o","s","t","o","n">>

SeattleSonics == <<"S","e","a","t","t","l","e"," ","S","o","n","i","c","s">>

\* s with every second character lower-cased: a mixed-case spelling of s.
AlternateCase(s) ==
  [i \in 1..Len(s) |-> IF i % 2 = 0 THEN LowerChar(s[i]) ELSE s[i]]

\* Team arguments: every canonical name as it is, lower-cased and in mixed
\* case; every canonical name less its last character and with a trailing
\* space; a city alone, a misspelt franchise, the empty string; and a list.
NameInputs ==
  {Str(Team[i]) : i \in 1..Len(Team)}
    \cup {Str(Lower(Team[i])) : i \in 1..Len(Team)}
    \cup {Str(AlternateCase(Team[i])) : i \in 1..Len(Team)}
    \cup {Str(SubSeq(Team[i], 1, Len(Team[i]) - 1)) : i \in 1..Len(Team)}
    \cup {Str(Team[i] \o <<" ">>) : i \in 1..Len(Team)}
    \cup {Str(LosAngelesLakersMixed), Str(BostonCelticsLower), Str(BostonOnly),
          Str(SeattleSonics), Str(<<>>), HomeTeamList}

\* The column headers of the misc_stats table.
data_stat_headers ==
  << <<"t","e","a","m","_","n","a","m","e">>,
     <<"a","g","e">>,
     <<"w","i","n","s">>,
     <<"l","o","s","s","e","s">>,
     <<"w","i","n","s","_","p","y","t","h">>,
     <<"l","o","s","s","e","s","_","p","y","t","h">>,
     <<"m","o","v">>,
     <<"s","o","s">>,
     <<"s","r","s">>,
     <<"o","f","f","_","r","t","g">>,
     <<"d","e","f","_","r","t","g">>,
     <<"p","a","c","e">>,
     <<"f","t","a","_","p","e","r","_","f","g","a","_","p","c","t">>,
     <<"f","g","3","a","_","p","e","r","_","f","g","a","_","p","c","t">>,
     <<"t","s","_","p","c","t">>,
     <<"e","f","g","_","p","c","t">>,
     <<"t","o","v","_","p","c","t">>,
     <<"o","r","b","_","p","c","t">>,
     <<"f","t","_","r","a","t","e">>,
     <<"o","p","p","_","e","f","g","_","p","c","t">>,
     <<"o","p","p","_","t","o","v","_","p","c","t">>,
     <<"d","r","b","_","p","c","t">>,
     <<"o","p","p","_","f","t","_","r","a","t","e">>,
     <<"a","r","e","n","a","_","n","a","m","e">>,
     <<"a","t","t","e","n","d","a","n","c","e">>,
     <<"a","t","t","e","n","d","a","n","c","e","_","p","e","r","_","g">> >>

ColArenaName == <<"a","r","e","n","a","_","n","a","m","e">>

\* The cell of numeric column j in a row of profile 1 or 2.
StatValue(profile, j) == (profile * j) % 5

\* A row of the stats table for the team spelt `name`.
StatsRow(name, profile) ==
  [j \in 1..Len(data_stat_headers) |->
     IF data_stat_headers[j] = ColTeamName THEN name
     ELSE IF data_stat_headers[j] = ColArenaName THEN <<"A","r","e","n","a">>
     ELSE StatValue(profile, j)]

\* Stats tables: up to MaxRows rows (repeats included) among a row for
\* "LOS ANGELES LAKERS", one for "Los Angeles Lakers" and one for "BOSTON CELTICS".
StatsTables ==
  LET RowSet == {StatsRow(Team[14], 1), StatsRow(LosAngelesLakersMixed, 2),
                 StatsRow(Team[2], 2)}
  IN {DataFrame(data_stat_headers, rows) :
        rows \in UNION {[1..n -> RowSet] : n \in 0..MaxRows}}

\* Team arguments of create_prediction_df: what get_team_name hands on (a
\* canonical name, or None), and a lower-case spelling.
TeamArgs == {Str(Team[14]), Str(Team[2]), Str(Team[1]), Str(BostonCelticsLower), None}

\* Team arguments of predict_game: free-text names.
GameTeamInputs == {Str(LosAngelesLakersMixed), Str(BostonCelticsLower), Str(SeattleSonics)}

\* Start times of the games predicted one by one (hours since day 0).
GameStartTimes == {43}

\* Days asked for, and the start times around them: the last hour of the day
\* before day 1, midnight and the last hour of day 1, midnight of day 2.
Days == {1, 2}

SchedStartTimes == {Midnight(1) - 1, Midnight(1), Midnight(2) - 1, Midnight(2)}

\* Schedules: up to MaxGames rows, Lakers v Celtics either way round, the id
\* being the row's place in the table.
Schedules ==
  LET Games == {<<start_time, pair[1], pair[2]>> :
                  start_time \in SchedStartTimes,
                  pair \in {<<Team[14], Team[2]>>, <<Team[2], Team[14]>>}}
  IN {DataFrame(SchedColumns,
                [i \in 1..Len(games) |->
                   <<i, games[i][1], games[i][2], games[i][3]>>]) :
        games \in UNION {[1..n -> Games] : n \in 0..MaxGames}}

\* The season's stats table behind db_conn: one row for each of the two teams.
SeasonStats == DataFrame(data_stat_headers, <<StatsRow(Team[14], 1), StatsRow(Team[2], 2)>>)

----------------------------------------------------------------------------
(* State machine: the functions of predict.py called from outside *)

Margins == (-MaxMargin)..MaxMargin

Init ==
  /\ name_call = NotCalled
  /\ ff_call = NotCalled
  /\ df_call = NotCalled
  /\ lp_call = NotCalled
  /\ lp_prev = NotCalled
  /\ pg_call = NotCalled
  /\ day_call = NotCalled

\* A call line_probability(prediction, line, std), the first or the second;
\* the call before it is kept in lp_prev so that two calls can be compared.
CallLineProbability ==
  /\ lp_prev = NotCalled
  /\ \E prediction \in Margins, line \in Margins, std \in Stds :
       lp_call' = [args |-> <<prediction, line, std>>,
                   out |-> line_probability(prediction, line, std)]
  /\ lp_prev' = lp_call
  /\ UNCHANGED <<name_call, ff_call, df_call, pg_call, day_call>>

NextProb == CallLineProbability

SpecProb == Init /\ [][NextProb]_vars

\* A call get_team_name(team).
CallGetTeamName ==
  /\ name_call = NotCalled
  /\ \E team \in NameInputs :
       name_call' = [args |-> <<team>>, out |-> get_team_name(team)]
  /\ UNCHANGED <<ff_call, df_call, lp_call, lp_prev, pg_call, day_call>>

NextName == CallGetTeamName

SpecName == Init /\ [][NextName]_vars

\* A call create_prediction_df(home_tm, away_tm, ff_df).
CallCreatePredictionDf ==
  /\ df_call = NotCalled
  /\ \E home_tm \in TeamArgs, away_tm \in TeamArgs, ff_df \in StatsTables :
       df_call' = [args |-> <<home_tm, away_tm, ff_df>>,
                   out |-> create_prediction_df(home_tm, away_tm, ff_df)]
  /\ UNCHANGED <<name_call, ff_call, lp_call, lp_prev, pg_call, day_call>>

NextDf == CallCreatePredictionDf

SpecDf == Init /\ [][NextDf]_vars

\* A call get_team_ff(team, ff_df, home).
CallGetTeamFf ==
  /\ ff_call = NotCalled
  /\ \E team \in TeamArgs, ff_df \in StatsTables, home \in BOOLEAN :
       ff_call' = [args |-> <<team, ff_df, home>>,
                   out |-> get_team_ff(team, ff_df, home)]
  /\ UNCHANGED <<name_call, df_call, lp_call, lp_prev, pg_call, day_call>>

NextFf == CallGetTeamFf

SpecFf == Init /\ [][NextFf]_vars

\* A call predict_game(start_time, home_tm, away_tm, line, db_conn).
CallPredictGame ==
  /\ pg_call = NotCalled
  /\ \E start_time \in GameStartTimes, home_tm \in GameTeamInputs,
        away_tm \in GameTeamInputs, line \in Margins,
        misc_stats \in StatsTables, reg \in Regs :
       pg_call' = [args |-> <<start_time, home_tm, away_tm, line, misc_stats, reg>>,
                   out |-> predict_game(start_time, home_tm, away_tm, line, misc_stats, reg)]
  /\ UNCHANGED <<name_call, ff_call, df_call, lp_call, lp_prev, day_call>>

NextGame == CallPredictGame

SpecGame == Init /\ [][NextGame]_vars

\* A call predict_games_on_day(day, month, year, sched_df, lines, db_conn).
CallPredictGamesOnDay ==
  /\ day_call = NotCalled
  /\ \E day \in Days, sched_df \in Schedules, lines \in BOOLEAN, reg \in Regs :
       \E done \in {predict_games_on_day(day, sched_df, lines, SeasonStats, reg)} :
          day_call' = [args |-> <<day, sched_df, lines, SeasonStats, reg>>,
                        out |-> done.out,
                        games_on_date |-> done.games_on_date,
                        calls |-> done.calls]
  /\ UNCHANGED <<name_call, ff_call, df_call, lp_call, lp_prev, pg_call>>

NextDay == CallPredictGamesOnDay

SpecDay == Init /\ [][NextDay]_vars

----------------------------------------------------------------------------
(* Properties *)

Called(c) == c.out.kind # "none"

\* The probability a line_probability outcome carries: the first member of a
\* returned tuple, or a bare returned float.
HasProbability(out) ==
  /\ out.kind = "return"
  /\ \/ out.value.t = "float"
     \/ out.value.t = "tuple" /\ Len(out.value.v) = 2 /\ out.value.v[1].t = "float"

ProbabilityOf(out) ==
  IF out.value.t = "tuple" THEN out.value.v[1].v ELSE out.value.v

OnBranch(c, tag) ==
  /\ Called(c)
  /\ c.out.kind = "return"
  /\ c.out.value.t = "tuple"
  /\ c.out.value.v[2] = tag

\* C1: line_probability compares prediction with -line; when prediction > -line
\* it returns the CDF of Normal(prediction, std) at -line with the tag "cdf",
\* when prediction < -line it returns 1 - CDF at -line with the tag "sf".
C1_TailSelection ==
  Called(lp_call) =>
    LET prediction == lp_call.args[1]
        line == lp_call.args[2]
        std == lp_call.args[3]
        cdf == NormCdf(-line, prediction, std)
    IN /\ prediction > -line =>
            lp_call.out = Return(Tuple(<<Float(cdf), TagCdf>>))
       /\ prediction < -line =>
            lp_call.out = Return(Tuple(<<Float(2 * Half - cdf), TagSf>>))

\* Both branches taken, on the spec's scenario line = -4: an sf call
\* (prediction 3 < 4) after a cdf call with a probability strictly inside (0, 0.5).
C1_Witness ==
  /\ OnBranch(lp_prev, TagCdf)
  /\ lp_prev.args[1] > -lp_prev.args[2]
  /\ ProbabilityOf(lp_prev.out) > 0
  /\ ProbabilityOf(lp_prev.out) < Half
  /\ OnBranch(lp_call, TagSf)
  /\ lp_call.args = <<3, -4, 2>>
  /\ ProbabilityOf(lp_call.out) = 2 * Half - NormCdf(4, 3, 2)

\* C2: when prediction equals -line exactly, the probability line_probability
\* produces is exactly 0.5.
C2_EqualIsHalf ==
  (Called(lp_call) /\ lp_call.args[1] = -lp_call.args[2]) =>
    /\ HasProbability(lp_call.out)
    /\ ProbabilityOf(lp_call.out) = Half

\* The spec's scenario: prediction = 4, line = -4.
C2_Witness ==
  /\ Called(lp_call)
  /\ lp_call.args[1] = 4
  /\ lp_call.args[2] = -4
  /\ lp_call.out = Return(Float(Half))

\* C4 as stated: the returned probability lies in [0, 1] and is never less than 0.5.
C4_NeverBelowHalf ==
  Called(lp_call) =>
    /\ HasProbability(lp_call.out)
    /\ ProbabilityOf(lp_call.out) >= 0
    /\ ProbabilityOf(lp_call.out) <= 2 * Half
    /\ ProbabilityOf(lp_call.out) >= Half

\* C4 amended: the returned probability lies in [0, 1] and is never greater
\* than 0.5 (the tail reported is the one on the far side of the line from
\* the prediction).
C4_NeverAboveHalf ==
  Called(lp_call) =>
    /\ HasProbability(lp_call.out)
    /\ ProbabilityOf(lp_call.out) >= 0
    /\ ProbabilityOf(lp_call.out) <= 2 * Half
    /\ ProbabilityOf(lp_call.out) <= Half

\* A call on the sf branch whose probability is strictly below 0.5.
C4_Witness ==
  /\ OnBranch(lp_call, TagSf)
  /\ lp_call.args[1] < -lp_call.args[2]
  /\ ProbabilityOf(lp_call.out) > 0
  /\ ProbabilityOf(lp_call.out) < Half

\* Two successive calls with the same line and std, both on the branch `tag`,
\* the earlier with the smaller (or equal) prediction.
SameBranchPair(tag) ==
  /\ OnBranch(lp_prev, tag)
  /\ OnBranch(lp_call, tag)
  /\ lp_prev.args[2] = lp_call.args[2]
  /\ lp_prev.args[3] = lp_call.args[3]
  /\ lp_prev.args[1] <= lp_call.args[1]

\* C5 as stated: with std and line fixed the probability is non-decreasing in
\* the prediction on the cdf branch and non-increasing on the sf branch.
C5_MonotoneAsStated ==
  /\ SameBranchPair(TagCdf) =>
       ProbabilityOf(lp_prev.out) <= ProbabilityOf(lp_call.out)
  /\ SameBranchPair(TagSf) =>
       ProbabilityOf(lp_prev.out) >= ProbabilityOf(lp_call.out)

\* C5 amended: with std and line fixed the probability is non-increasing in
\* the prediction on the cdf branch and non-decreasing on the sf branch.
C5_MonotoneReversed ==
  /\ SameBranchPair(TagCdf) =>
       ProbabilityOf(lp_prev.out) >= ProbabilityOf(lp_call.out)
  /\ SameBranchPair(TagSf) =>
       ProbabilityOf(lp_prev.out) <= ProbabilityOf(lp_call.out)

\* Two cdf calls with the same line and std, the prediction strictly larger
\* and the probability strictly smaller in the second.
C5_Witness ==
  /\ SameBranchPair(TagCdf)
  /\ lp_prev.args[1] < lp_call.args[1]
  /\ ProbabilityOf(lp_prev.out) > ProbabilityOf(lp_call.out)

\* The members of Team that equal the str s ignoring case.
CanonicalMatches(s) == {i \in 1..Len(Team) : TeamLower[i] = Lower(s)}

\* C9: get_team_name returns the canonical name for an input that equals one
\* ignoring case, and fails with NotFound for every input that matches none;
\* no non-team value is returned.
C9_ResolveOrNotFound ==
  (Called(name_call) /\ name_call.args[1].t = "str") =>
    LET hits == CanonicalMatches(name_call.args[1].v)
    IN IF hits # {}
         THEN /\ name_call.out.kind = "return"
              /\ name_call.out.value \in {Str(Team[i]) : i \in hits}
         ELSE /\ name_call.out.kind = "raise"
              /\ name_call.out.exc = "NotFound"

\* The rows of the stats table whose team_name equals the str `team` ignoring case.
MatchingRows(team, ff_df) ==
  {r \in 1..Len(ff_df.rows) :
     Lower(Cell(ff_df, ff_df.rows[r], ColTeamName)) = Lower(team.v)}

\* The 17 feature names in lexicographic order.
FeatureNames ==
  << <<"c","o","n","s","t">>,
     <<"d","r","b","_","p","c","t","_","a">>,
     <<"d","r","b","_","p","c","t","_","h">>,
     <<"e","f","g","_","p","c","t","_","a">>,
     <<"e","f","g","_","p","c","t","_","h">>,
     <<"f","t","_","r","a","t","e","_","a">>,
     <<"f","t","_","r","a","t","e","_","h">>,
     <<"o","p","p","_","e","f","g","_","p","c","t","_","a">>,
     <<"o","p","p","_","e","f","g","_","p","c","t","_","h">>,
     <<"o","p","p","_","f","t","_","r","a","t","e","_","a">>,
     <<"o","p","p","_","f","t","_","r","a","t","e","_","h">>,
     <<"o","p","p","_","t","o","v","_","p","c","t","_","a">>,
     <<"o","p","p","_","t","o","v","_","p","c","t","_","h">>,
     <<"o","r","b","_","p","c","t","_","a">>,
     <<"o","r","b","_","p","c","t","_","h">>,
     <<"t","o","v","_","p","c","t","_","a">>,
     <<"t","o","v","_","p","c","t","_","h">> >>

BothMatchOnce(c) ==
  /\ Called(c)
  /\ c.args[1].t = "str"
  /\ c.args[2].t = "str"
  /\ Cardinality(MatchingRows(c.args[1], c.args[3])) = 1
  /\ Cardinality(MatchingRows(c.args[2], c.args[3])) = 1

\* C10: when home and away team each match exactly one row of the stats table,
\* create_prediction_df yields one feature vector of exactly 17 entries: the
\* eight four factors of the home row suffixed _h, the eight of the away row
\* suffixed _a, and const = 1.0, in lexicographic order of the names, without
\* the join key.
C10_FeatureVector ==
  BothMatchOnce(df_call) =>
    /\ df_call.out.kind = "return"
    /\ LET df == df_call.out.value
           ff_df == df_call.args[3]
           home_row == ff_df.rows[CHOOSE r \in MatchingRows(df_call.args[1], ff_df) : TRUE]
           away_row == ff_df.rows[CHOOSE r \in MatchingRows(df_call.args[2], ff_df) : TRUE]
       IN /\ Len(df.rows) = 1
          /\ Len(df.columns) = 17
          /\ Len(df.rows[1]) = 17
          /\ df.columns = FeatureNames
          /\ \A j \in 1..16 : StrLess(df.columns[j], df.columns[j + 1])
          /\ ~HasColumn(df, ColKey)
          /\ Cell(df, df.rows[1], ColConst) = 1
          /\ \A k \in 1..Len(four_factors) :
               /\ Cell(df, df.rows[1], four_factors[k] \o <<"_","h">>)
                    = Cell(ff_df, home_row, four_factors[k])
               /\ Cell(df, df.rows[1], four_factors[k] \o <<"_","a">>)
                    = Cell(ff_df, away_row, four_factors[k])

\* Home "LOS ANGELES LAKERS" and away "boston celtics", each on one row of a
\* two-row table with different numbers, and the frame returned.
C10_Witness ==
  /\ BothMatchOnce(df_call)
  /\ df_call.args[1] = Str(Team[14])
  /\ df_call.args[2] = Str(BostonCelticsLower)
  /\ df_call.args[3].rows = <<StatsRow(Team[2], 2), StatsRow(Team[14], 1)>>
  /\ df_call.out.kind = "return"
  /\ df_call.out.value.columns = FeatureNames
  /\ Len(df_call.out.value.rows) = 1

\* A predict_game call whose two team names resolve to canonical teams that
\* each have exactly one row of the stats table.
ResolvableGame(c) ==
  /\ Called(c)
  /\ c.args[2].t = "str" /\ CanonicalMatches(c.args[2].v) # {}
  /\ c.args[3].t = "str" /\ CanonicalMatches(c.args[3].v) # {}
  /\ Cardinality(MatchingRows(c.args[2], c.args[5])) = 1
  /\ Cardinality(MatchingRows(c.args[3], c.args[5])) = 1

PredictionResultFields ==
  {"start_time", "home_team", "away_team", "line", "prediction", "probability", "function"}

\* The prediction of a resolvable game: the fitted margin of the one feature row.
GamePrediction(c) ==
  get_prediction(c.args[6],
                 create_prediction_df(Str(Team[CHOOSE i \in CanonicalMatches(c.args[2].v) : TRUE]),
                                      Str(Team[CHOOSE i \in CanonicalMatches(c.args[3].v) : TRUE]),
                                      c.args[5]).value).value

\* C3: predict_game returns a PredictionResult with the seven fields for every
\* call with two resolvable teams and a numeric line, whichever way the
\* prediction compares with -line; when they are equal the result carries
\* probability 0.5.
C3_AlwaysReturnsResult ==
  ResolvableGame(pg_call) =>
    /\ pg_call.out.kind = "return"
    /\ pg_call.out.value.t = "dict"
    /\ DOMAIN pg_call.out.value.v = PredictionResultFields
    /\ pg_call.out.value.v.prediction = -pg_call.args[4] =>
         pg_call.out.value.v.probability = Float(Half)

\* What the code does instead: a resolvable game returns the seven fields
\* exactly when prediction differs from -line, and raises TypeError when they are equal.
GameBehaviour ==
  ResolvableGame(pg_call) =>
    IF GamePrediction(pg_call) = -pg_call.args[4]
      THEN pg_call.out = Raise("TypeError")
      ELSE /\ pg_call.out.kind = "return"
           /\ DOMAIN pg_call.out.value.v = PredictionResultFields
           /\ pg_call.out.value.v.prediction = GamePrediction(pg_call)

GameEqualReached ==
  /\ ResolvableGame(pg_call)
  /\ pg_call.args[4] = -4
  /\ GamePrediction(pg_call) = 4

GameReturnReached ==
  /\ ResolvableGame(pg_call)
  /\ pg_call.out.kind = "return"
  /\ pg_call.out.value.v.function = TagSf

\* The rows of a day call's schedule that start on the day asked for:
\* 24 * day <= start_time < 24 * (day + 1).
RowsOnDay(c) ==
  SelectSeq(c.args[2].rows, LAMBDA row : row[2] >= 24 * c.args[1] /\ row[2] < 24 * (c.args[1] + 1))

\* C6 as stated: predict_games_on_day returns a sequence with exactly one
\* PredictionResult for each schedule row on the date, in schedule order, each
\* carrying its row's start_time, home_team and away_team, computed against
\* the supplied line, or against 0 when no lines are supplied.
C6_ReturnsResultPerRow ==
  (Called(day_call) /\ RowsOnDay(day_call) # <<>>) =>
    /\ day_call.out.kind = "return"
    /\ day_call.out.value.t = "list"
    /\ Len(day_call.out.value.v) = Len(RowsOnDay(day_call))
    /\ \A i \in 1..Len(RowsOnDay(day_call)) :
         LET result == day_call.out.value.v[i]
             row == RowsOnDay(day_call)[i]
         IN /\ result.t = "dict"
            /\ result.v.start_time = row[2]
            /\ result.v.home_team = Str(row[3])
            /\ result.v.away_team = Str(row[4])
            /\ result.v.line = IF day_call.args[3] THEN game_lines[1] ELSE 0

\* What the code does on a day with games: with lines it predicts the games
\* in order against line 4 and returns None, unless a game fails; without
\* lines the first game fails with AttributeError.
DayBehaviour ==
  (Called(day_call) /\ RowsOnDay(day_call) # <<>>) =>
    IF day_call.args[3]
      THEN /\ \/ day_call.out = Return(None) /\ Len(day_call.calls) = Len(RowsOnDay(day_call))
              \/ day_call.out = Raise("TypeError")
           /\ \A i \in 1..Len(day_call.calls) :
                /\ day_call.calls[i].row = RowsOnDay(day_call)[i]
                /\ day_call.calls[i].args[4] = 4
      ELSE /\ day_call.out = Raise("AttributeError")
           /\ Len(day_call.calls) = 1

\* C7: the day filter keeps exactly the schedule rows with
\* date <= start_time < date + 1 day, in schedule order: a game at midnight of
\* the date is kept, a game at midnight of the next date is not, and every
\* game predicted is a kept row.
C7_DayFilter ==
  Called(day_call) =>
    LET sched == day_call.args[2].rows
        date == 24 * day_call.args[1]
        kept == day_call.games_on_date.rows
    IN /\ kept = RowsOnDay(day_call)
       /\ \A i \in 1..Len(sched) :
            /\ sched[i][2] = date => \E k \in 1..Len(kept) : kept[k] = sched[i]
            /\ sched[i][2] = date + 24 => \A k \in 1..Len(kept) : kept[k] # sched[i]
       /\ \A i \in 1..Len(day_call.calls) :
            /\ day_call.calls[i].row[2] >= date
            /\ day_call.calls[i].row[2] < date + 24
            /\ \E k \in 1..Len(kept) : kept[k] = day_call.calls[i].row

\* Day 1 with a game at its midnight and a game at midnight of day 2: the
\* first is kept and predicted, the second is not.
C7_Witness ==
  /\ Called(day_call)
  /\ day_call.args[1] = 1
  /\ day_call.args[3]
  /\ Len(day_call.args[2].rows) = 2
  /\ day_call.args[2].rows[1][2] = 24
  /\ day_call.args[2].rows[2][2] = 48
  /\ day_call.games_on_date.rows = <<day_call.args[2].rows[1]>>
  /\ Len(day_call.calls) = 1
  /\ day_call.calls[1].row = day_call.args[2].rows[1]
  /\ day_call.calls[1].out.kind = "return"

\* C8: on a date on which no schedule row passes the day filter,
\* predict_games_on_day fails with the "No games" exception before any
\* predict_game call is made.
C8_NoGamesRaises ==
  (Called(day_call) /\ RowsOnDay(day_call) = <<>>) =>
    /\ day_call.out = Raise("Exception: No games")
    /\ day_call.calls = <<>>

\* A schedule with games, none of them on the day asked for.
C8_Witness ==
  /\ Called(day_call)
  /\ Len(day_call.args[2].rows) = 2
  /\ RowsOnDay(day_call) = <<>>
  /\ day_call.games_on_date.rows = <<>>
  /\ day_call.out.kind = "raise"
  /\ day_call.calls = <<>>

\* C11 as stated: get_team_ff returns a feature mapping only when exactly one
\* row of the stats table matches the team ignoring case; it fails with
\* TeamNotFound when no row matches and with AmbiguousTeam when two or more
\* match, and never returns an empty or a many-row result.
C11_OneRowOrFail ==
  (Called(ff_call) /\ ff_call.args[1].t = "str") =>
    LET n == Cardinality(MatchingRows(ff_call.args[1], ff_call.args[2]))
    IN /\ n = 1 => /\ ff_call.out.kind = "return"
                   /\ Len(ff_call.out.value.rows) = 1
       /\ n = 0 => ff_call.out = Raise("TeamNotFound")
       /\ n >= 2 => ff_call.out = Raise("AmbiguousTeam")

\* What the code does instead: for a str team it never fails and returns a
\* frame of the eight suffixed four factors with one row per matching row,
\* none or several included.
TeamFfBehaviour ==
  (Called(ff_call) /\ ff_call.args[1].t = "str") =>
    /\ ff_call.out.kind = "return"
    /\ Len(ff_call.out.value.columns) = Len(four_factors)
    /\ Len(ff_call.out.value.rows)
         = Cardinality(MatchingRows(ff_call.args[1], ff_call.args[2]))

\* "LOS ANGELES LAKERS" asked of a table holding "LOS ANGELES LAKERS" and
\* "Los Angeles Lakers": a two-row frame comes back.
TeamFfTwoRowsReached ==
  /\ Called(ff_call)
  /\ ff_call.args[1] = Str(Team[14])
  /\ ff_call.args[2].rows = <<StatsRow(Team[14], 1), StatsRow(LosAngelesLakersMixed, 2)>>
  /\ ff_call.out.kind = "return"
  /\ Len(ff_call.out.value.rows) = 2

\* "ATLANTA HAWKS" asked of a table without it: an empty frame comes back.
TeamFfNoRowReached ==
  /\ Called(ff_call)
  /\ ff_call.args[1] = Str(Team[1])
  /\ Len(ff_call.args[2].rows) = 2
  /\ ff_call.out.kind = "return"
  /\ ff_call.out.value.rows = <<>>

====
